---- MODULE Spec2Model ----
(***************************************************************************)
(* Model of app.py: one run of the Streamlit script (sidebar, fetch,       *)
(* guard, returns, the three tabs) as a state machine over the columns of  *)
(* the DataFrame df.                                                       *)
(*                                                                         *)
(* Floating-point values are modelled exactly.  A value is NaN, +inf, -inf *)
(* or a finite real (c[1] + c[2]*L + c[3]*L^2 + ...)/d with L = ln 2,      *)
(* integer coefficients c and a positive integer d, kept in lowest terms.  *)
(* ln 2 is transcendental, so two finite values are equal exactly when     *)
(* their records are equal.  Rounding of binary floats is not modelled.    *)
(***************************************************************************)
EXTENDS Integers, Sequences, FiniteSets, TLC

VARIABLES pc, calc_method, df, st_error, s, final_val, performance

vars == <<pc, calc_method, df, st_error, s, final_val, performance>>

----------------------------------------------------------------------------
(* Integer helpers.                                                        *)

AbsI(n) == IF n < 0 THEN -n ELSE n

MaxI(a, b) == IF a >= b THEN a ELSE b

RECURSIVE GCD(_, _)
GCD(a, b) == IF b = 0 THEN AbsI(a) ELSE GCD(b, a % AbsI(b))

RECURSIVE GcdSeq(_)
GcdSeq(c) == IF c = <<>> THEN 0 ELSE GCD(Head(c), GcdSeq(Tail(c)))

SignI(n) == IF n > 0 THEN 1 ELSE IF n < 0 THEN -1 ELSE 0

CeilDiv(a, b) == -((-a) \div b)

----------------------------------------------------------------------------
(* Polynomials in L = ln 2 with integer coefficients, lowest degree first. *)

Coeff(c, i) == IF i >= 1 /\ i <= Len(c) THEN c[i] ELSE 0

RECURSIVE Trim(_)
Trim(c) ==
    IF Len(c) > 1 /\ c[Len(c)] = 0 THEN Trim(SubSeq(c, 1, Len(c) - 1)) ELSE c

PolyAdd(a, b) == [i \in 1..MaxI(Len(a), Len(b)) |-> Coeff(a, i) + Coeff(b, i)]

PolyScale(a, k) == [i \in 1..Len(a) |-> k * a[i]]

RECURSIVE ConvSum(_, _, _, _)
ConvSum(a, b, i, j) ==
    IF j > i THEN 0 ELSE Coeff(a, j) * Coeff(b, i + 1 - j) + ConvSum(a, b, i, j + 1)

PolyMul(a, b) == [i \in 1..(Len(a) + Len(b) - 1) |-> ConvSum(a, b, i, 1)]

----------------------------------------------------------------------------
(* The float values.                                                       *)

NaN == [k |-> "nan", c |-> <<0>>, d |-> 1]

PInf == [k |-> "inf", c |-> <<1>>, d |-> 1]

NInf == [k |-> "inf", c |-> <<-1>>, d |-> 1]

InfOf(sgn) == IF sgn > 0 THEN PInf ELSE NInf

\* The rational n/d, d # 0, in lowest terms.
Rat(n, d) ==
    IF d = 1 THEN [k |-> "fin", c |-> <<n>>, d |-> 1]
    ELSE LET g == GCD(n, d)
             u == IF d < 0 THEN -1 ELSE 1
         IN  [k |-> "fin", c |-> <<u * (n \div g)>>, d |-> u * (d \div g)]

\* The finite value (c[1] + c[2]*L + ...)/d, d # 0, in lowest terms.
Fin(c, d) ==
    LET t == Trim(c)
    IN  IF Len(t) = 1 THEN Rat(t[1], d)
        ELSE LET g == GCD(GcdSeq(t), d)
                 u == IF d < 0 THEN -1 ELSE 1
             IN  [k |-> "fin", c |-> [i \in 1..Len(t) |-> u * (t[i] \div g)],
                  d |-> u * (d \div g)]

Num(n) == Rat(n, 1)

Zero == Num(0)

One == Num(1)

IsNaN(x) == x.k = "nan"

IsInf(x) == x.k = "inf"

IsFin(x) == x.k = "fin"

IsZero(x) == x.k = "fin" /\ x.c = <<0>>

IsRat(x) == x.k = "fin" /\ Len(x.c) = 1

\* ln 2 lies strictly between Ln2Lo/Ln2Scale and Ln2Hi/Ln2Scale.
Ln2Scale == 4096

Ln2Lo == 2839

Ln2Hi == 2840

\* One Horner step of the interval evaluation of a polynomial at L, in units
\* of 1/Ln2Scale, rounded outwards: iv := ci + iv * L.
HornerStep(ci, iv) ==
    LET lo == IF iv[1] >= 0 THEN iv[1] * Ln2Lo ELSE iv[1] * Ln2Hi
        hi == IF iv[2] >= 0 THEN iv[2] * Ln2Hi ELSE iv[2] * Ln2Lo
    IN  <<ci * Ln2Scale + (lo \div Ln2Scale), ci * Ln2Scale + CeilDiv(hi, Ln2Scale)>>

RECURSIVE Horner(_, _)
Horner(c, i) ==
    IF i = Len(c) THEN <<c[i] * Ln2Scale, c[i] * Ln2Scale>>
    ELSE HornerStep(c[i], Horner(c, i + 1))

\* The sign of a value that is not NaN.  For a polynomial of degree >= 1 the
\* interval must exclude 0 (no case applies otherwise: the evaluation stops).
Sign(x) ==
    CASE IsInf(x) -> x.c[1]
      [] IsFin(x) /\ Len(x.c) = 1 -> SignI(x.c[1])
      [] IsFin(x) /\ Len(x.c) > 1 /\ Horner(x.c, 1)[1] > 0 -> 1
      [] IsFin(x) /\ Len(x.c) > 1 /\ Horner(x.c, 1)[2] < 0 -> -1

NegV(x) ==
    CASE IsRat(x) -> Rat(-x.c[1], x.d)
      [] IsNaN(x) -> NaN
      [] IsInf(x) -> InfOf(-x.c[1])
      [] IsFin(x) -> Fin(PolyScale(x.c, -1), x.d)

\* IEEE 754 addition.
AddV(a, b) ==
    CASE IsRat(a) /\ IsRat(b) -> Rat(a.c[1] * b.d + b.c[1] * a.d, a.d * b.d)
      [] IsNaN(a) \/ IsNaN(b) -> NaN
      [] IsInf(a) /\ IsInf(b) -> IF a = b THEN a ELSE NaN
      [] IsInf(a) /\ IsFin(b) -> a
      [] IsFin(a) /\ IsInf(b) -> b
      [] IsFin(a) /\ IsFin(b) ->
            Fin(PolyAdd(PolyScale(a.c, b.d), PolyScale(b.c, a.d)), a.d * b.d)

SubV(a, b) == AddV(a, NegV(b))

\* IEEE 754 multiplication.
MulV(a, b) ==
    CASE IsRat(a) /\ IsRat(b) -> Rat(a.c[1] * b.c[1], a.d * b.d)
      [] IsNaN(a) \/ IsNaN(b) -> NaN
      [] IsFin(a) /\ IsFin(b) -> Fin(PolyMul(a.c, b.c), a.d * b.d)
      [] (IsInf(a) /\ IsZero(b)) \/ (IsZero(a) /\ IsInf(b)) -> NaN
      [] OTHER -> InfOf(Sign(a) * Sign(b))

\* IEEE 754 division by a rational, an infinity or NaN (the program divides
\* by closes and by counts only).
DivV(a, b) ==
    CASE IsNaN(a) \/ IsNaN(b) -> NaN
      [] IsInf(a) /\ IsInf(b) -> NaN
      [] IsFin(a) /\ IsInf(b) -> Zero
      [] IsZero(b) -> IF IsZero(a) THEN NaN ELSE InfOf(Sign(a))
      [] IsInf(a) /\ IsRat(b) -> InfOf(Sign(a) * Sign(b))
      [] IsFin(a) /\ IsRat(b) -> Fin(PolyScale(a.c, b.d), a.d * b.c[1])

LessV(a, b) ==
    /\ ~IsNaN(a)
    /\ ~IsNaN(b)
    /\ a # b
    /\ CASE IsInf(a) -> a = NInf
         [] IsInf(b) -> b = PInf
         [] OTHER -> Sign(SubV(b, a)) > 0

\* log2(n/d) for a positive rational that is a power of two.
RECURSIVE Log2(_, _)
Log2(n, d) ==
    CASE n = d -> 0
      [] n > d /\ n % 2 = 0 -> 1 + Log2(n \div 2, d)
      [] n < d /\ d % 2 = 0 -> Log2(n, d \div 2) - 1

\* np.log on one element: NaN for a negative argument, -inf at 0, and
\* k * ln 2 at 2^k (the closes of the model give no other positive ratio).
LogV(x) ==
    CASE IsNaN(x) -> NaN
      [] IsInf(x) -> IF x = PInf THEN PInf ELSE NaN
      [] IsRat(x) /\ x.c[1] < 0 -> NaN
      [] IsRat(x) /\ x.c[1] = 0 -> NInf
      [] IsRat(x) /\ x.c[1] > 0 -> Fin(<<0, Log2(x.c[1], x.d)>>, 1)

----------------------------------------------------------------------------
(* Program constants.                                                      *)

\* rolling(window=20)
FastWindow == 20

\* rolling(window=50)
SlowWindow == 50

\* 1000 * (...).cumprod(), and the base of the performance metric
InitialCapital == 1000

\* (final_val-1000)/10
PerfDivisor == 10

----------------------------------------------------------------------------------------------------------------------------------------
(* pandas operations on one column, a sequence of float values.            *)

\* The column as a tuple with every element evaluated once.
AsSeq(col) == SubSeq(col, 1, Len(col))

\* Series.shift(-1): each element takes the value of the next one.
ShiftBack(col) ==
    AsSeq([i \in 1..Len(col) |-> IF i = Len(col) THEN NaN ELSE col[i + 1]])

\* Series.shift(1)
Shift(col) == AsSeq([i \in 1..Len(col) |-> IF i = 1 THEN NaN ELSE col[i - 1]])

\* Series.pct_change(): data / data.shift(1) - 1
PctChange(col) ==
    LET prev == Shift(col)
    IN  AsSeq([i \in 1..Len(col) |-> SubV(DivV(col[i], prev[i]), One)])

\* np.log(Close / Close.shift(1))
LogReturns(col) ==
    LET prev == Shift(col)
    IN  AsSeq([i \in 1..Len(col) |-> LogV(DivV(col[i], prev[i]))])

\* col[lo] + ... + col[hi], lo <= hi, summed by halves.
RECURSIVE SumRange(_, _, _)
SumRange(col, lo, hi) ==
    IF lo = hi THEN col[lo]
    ELSE LET mid == (lo + hi) \div 2
         IN  AddV(SumRange(col, lo, mid), SumRange(col, mid + 1, hi))

\* rolling(window=w, min_periods=1).mean(): the mean of the closes seen so
\* far while fewer than w are in the window.
RollingMeanMinPeriods1(col, w) ==
    AsSeq([i \in 1..Len(col) |->
             IF i < w THEN DivV(SumRange(col, 1, i), Num(i))
             ELSE DivV(SumRange(col, i - w + 1, i), Num(w))])

\* The running sums col[lo], col[lo] + col[lo+1], ... up to hi, lo <= hi,
\* built by halves (the sums of the right half continue from the last sum of
\* the left half).
RECURSIVE RunningSum(_, _, _)
RunningSum(col, lo, hi) ==
    IF lo = hi THEN <<col[lo]>>
    ELSE LET mid == (lo + hi) \div 2
             left == RunningSum(col, lo, mid)
             right == RunningSum(col, mid + 1, hi)
         IN  left \o [j \in 1..Len(right) |-> AddV(left[Len(left)], right[j])]

\* Series.rolling(window=w).mean() on a column of finite values
\* (min_periods = w): NaN until w observations are in the window; from then
\* on the sum of the window, kept as pandas keeps it by adding the element
\* that enters and removing the one that leaves (the running sum at the
\* element minus the running sum w elements earlier), divided by w.
RollingMean(col, w) ==
    IF Len(col) = 0 THEN <<>>
    ELSE LET sums == RunningSum(col, 1, Len(col))
         IN  AsSeq([i \in 1..Len(col) |->
                 IF i < w THEN NaN
                 ELSE IF i = w THEN DivV(sums[i], Num(w))
                 ELSE DivV(SubV(sums[i], sums[i - w]), Num(w))])

\* The signal with >= in the place of >.
SignalOfNotStrict(fast, slow) ==
    AsSeq([i \in 1..Len(fast) |->
             IF LessV(slow[i], fast[i]) \/ (~IsNaN(fast[i]) /\ fast[i] = slow[i])
             THEN One ELSE Zero])

\* df['Signal'] = 0 ; df.loc[df['SMA20'] > df['SMA50'], 'Signal'] = 1
\* (a comparison with NaN is False)
SignalOf(fast, slow) ==
    AsSeq([i \in 1..Len(fast) |-> IF LessV(slow[i], fast[i]) THEN One ELSE Zero])

\* df['Signal'] * df['Returns']: the signal of the same index.
StratRetNoLag(signal, returns) ==
    AsSeq([i \in 1..Len(signal) |-> MulV(signal[i], returns[i])])

\* df['Signal'].shift(1) * df['Returns']
StratRet(signal, returns) ==
    LET pos == Shift(signal)
    IN  AsSeq([i \in 1..Len(signal) |-> MulV(pos[i], returns[i])])

\* No fillna: the column as it is.
NoFillNa(col) == col

\* Series.fillna(0)
FillNa0(col) == AsSeq([i \in 1..Len(col) |-> IF IsNaN(col[i]) THEN Zero ELSE col[i]])

\* np.cumprod over col[lo..hi], lo <= hi: the running products, built by
\* halves (the products of the right half continue from the last product of
\* the left half).
RECURSIVE RunningProd(_, _, _)
RunningProd(col, lo, hi) ==
    IF lo = hi THEN <<col[lo]>>
    ELSE LET mid == (lo + hi) \div 2
             left == RunningProd(col, lo, mid)
             right == RunningProd(col, mid + 1, hi)
         IN  left \o [j \in 1..Len(right) |-> MulV(left[Len(left)], right[j])]

\* Series.cumprod() (skipna): the NaN elements count as 1 in the running
\* product and are NaN in the result.
CumProd(col) ==
    IF col = <<>> THEN <<>>
    ELSE LET masked == AsSeq([i \in 1..Len(col) |-> IF IsNaN(col[i]) THEN One ELSE col[i]])
             running == RunningProd(masked, 1, Len(col))
         IN  AsSeq([i \in 1..Len(col) |-> IF IsNaN(col[i]) THEN NaN ELSE running[i]])

\* 1000 * (1 + df['Strat_Ret'].fillna(0)).cumprod()
EquityOf(strat) ==
    LET filled == FillNa0(strat)
        growth == CumProd(AsSeq([i \in 1..Len(strat) |-> AddV(One, filled[i])]))
    IN  AsSeq([i \in 1..Len(strat) |-> MulV(Num(InitialCapital), growth[i])])

\* (final_val-1000)/1000: the gain as a fraction, not as a percentage.
PerformanceAsFraction(final) ==
    DivV(SubV(final, Num(InitialCapital)), Num(InitialCapital))

\* ((final_val-1000)/10)
PerformanceOf(final) == DivV(SubV(final, Num(InitialCapital)), Num(PerfDivisor))

----------------------------------------------------------------------------
(* get_stats.  Of the returned mapping the model keeps Mean, Min and Max;  *)
(* Median, Std Dev, Skewness and Kurtosis are computed from the same       *)
(* clean_returns and are not represented.                                  *)

None == [kind |-> "None"]

Unset == [kind |-> "unset"]

\* No dropna: the column as it is.
KeepNa(col) == col

\* Series.dropna()
DropNa(col) == SelectSeq(col, LAMBDA x : ~IsNaN(x))

\* np.min / np.max over col[lo..hi]: with no NaN in col every pair compares.
RECURSIVE MinRange(_, _, _)
MinRange(col, lo, hi) ==
    IF lo = hi THEN col[lo]
    ELSE LET mid == (lo + hi) \div 2
             a == MinRange(col, lo, mid)
             b == MinRange(col, mid + 1, hi)
         IN  IF LessV(b, a) THEN b ELSE a

RECURSIVE MaxRange(_, _, _)
MaxRange(col, lo, hi) ==
    IF lo = hi THEN col[lo]
    ELSE LET mid == (lo + hi) \div 2
             a == MaxRange(col, lo, mid)
             b == MaxRange(col, mid + 1, hi)
         IN  IF LessV(a, b) THEN b ELSE a

get_stats(returns) ==
    LET clean_returns == DropNa(returns)
        n == Len(clean_returns)
    IN  IF n = 0 THEN None
        ELSE [kind |-> "dict",
              Mean |-> DivV(SumRange(clean_returns, 1, n), Num(n)),
              Min |-> MinRange(clean_returns, 1, n),
              Max |-> MaxRange(clean_returns, 1, n)]

----------------
(* The inputs of one run.                                                  *)

\* Longest varying end of a fetched close series.
MaxTail == 3

\* The closes a fetched series holds: negative, zero, and powers of two.
CloseValues == {-1, 0, 1, 2}

\* A fetched close series is a constant stretch of PrefixLens closes (none,
\* one short of the fast window, one short of the slow window) followed by
\* up to MaxTail arbitrary closes.
PrefixLens == {0, FastWindow - 1, SlowWindow - 1}

Tails == UNION {[1..n -> CloseValues] : n \in 0..MaxTail}

CloseSeries ==
    {[i \in 1..p |-> Num(b)] \o [i \in 1..Len(t) |-> Num(t[i])] :
        p \in PrefixLens, b \in CloseValues, t \in Tails}

Frame(name, col) == [len |-> Len(col), col |-> (name :> col)]

\* pd.DataFrame()
EmptyFrame == [len |-> 0, col |-> [c \in {} |-> <<>>]]

\* What yf.download does: raise, or return a table, with or without a Close
\* column (of the other columns of the table only Open is represented).
Downloads ==
    {[raised |-> TRUE, data |-> EmptyFrame]}
    \cup {[raised |-> FALSE, data |-> Frame("Close", c)] : c \in CloseSeries}
    \cup {[raised |-> FALSE, data |-> Frame("Open", [i \in 1..Len(t) |-> Num(t[i])])] :
            t \in Tails}

\* fetch_data: the downloaded table, or an empty table when the download raises.
fetch_data(download) == IF download.raised THEN EmptyFrame ELSE download.data

\* df.empty
IsEmpty(frame) == frame.len = 0 \/ DOMAIN frame.col = {}

HasCol(frame, name) == name \in DOMAIN frame.col

\* df[name] = col
WithCol(frame, name, col) == [frame EXCEPT !.col = (name :> col) @@ frame.col]

\* if 'Close' not in df.columns: the guard without df.empty.
LoadFailsNoCloseOnly(frame) == ~HasCol(frame, "Close")

\* if df.empty or 'Close' not in df.columns
LoadFails(frame) == IsEmpty(frame) \/ ~HasCol(frame, "Close")

Methods == {"Arithmetique", "Logarithmique"}

\* The Returns column with its undefined elements dropped.
ReturnsDropped(method, close) ==
    SelectSeq(IF method = "Arithmetique" THEN PctChange(close) ELSE LogReturns(close),
              LAMBDA x : ~IsNaN(x))

\* CALCULATIONS: the Returns column for the chosen method.
ReturnsOf(method, close) ==
    IF method = "Arithmetique" THEN PctChange(close) ELSE LogReturns(close)

----------------------------------------------------------------------------
(* One run of the script.                                                  *)

Init ==
    /\ pc = "load"
    /\ calc_method \in Methods
    /\ df = EmptyFrame
    /\ st_error = FALSE
    /\ s = Unset
    /\ final_val = Unset
    /\ performance = Unset

\* SIDEBAR and LOAD DATA: fetch, then stop with an error on an unusable table.
LoadData ==
    /\ pc = "load"
    /\ \E download \in Downloads :
         LET data == fetch_data(download)
         IN  /\ df' = data
             /\ IF LoadFails(data)
                THEN pc' = "stopped" /\ st_error' = TRUE
                ELSE pc' = "calc" /\ st_error' = FALSE
    /\ UNCHANGED <<calc_method, s, final_val, performance>>

\* CALCULATIONS
Calculations ==
    /\ pc = "calc"
    /\ df' = WithCol(df, "Returns", ReturnsOf(calc_method, df.col["Close"]))
    /\ pc' = "tab1"
    /\ UNCHANGED <<calc_method, st_error, s, final_val, performance>>

\* tab1: the SMA 20 overlay.
Tab1 ==
    /\ pc = "tab1"
    /\ df' = WithCol(df, "SMA20", RollingMean(df.col["Close"], FastWindow))
    /\ pc' = "tab2"
    /\ UNCHANGED <<calc_method, st_error, s, final_val, performance>>

\* tab2: the statistics.
Tab2 ==
    /\ pc = "tab2"
    /\ s' = get_stats(df.col["Returns"])
    /\ pc' = "tab3"
    /\ UNCHANGED <<calc_method, df, st_error, final_val, performance>>

\* df['SMA50'] = df['Close'].rolling(window=50).mean()
AddSMA50(frame) ==
    WithCol(frame, "SMA50", RollingMean(frame.col["Close"], SlowWindow))

\* df['Signal'] = 0 ; df.loc[df['SMA20'] > df['SMA50'], 'Signal'] = 1
AddSignal(frame) ==
    WithCol(frame, "Signal", SignalOf(frame.col["SMA20"], frame.col["SMA50"]))

\* df['Strat_Ret'] = df['Signal'].shift(1) * df['Returns']
AddStratRet(frame) ==
    WithCol(frame, "Strat_Ret", StratRet(frame.col["Signal"], frame.col["Returns"]))

\* df['Equity'] = 1000 * (1 + df['Strat_Ret'].fillna(0)).cumprod()
AddEquity(frame) == WithCol(frame, "Equity", EquityOf(frame.col["Strat_Ret"]))

\* tab3: the backtest of the SMA crossover, the final capital and the
\* performance.
Tab3 ==
    /\ pc = "tab3"
    /\ df' = AddEquity(AddStratRet(AddSignal(AddSMA50(df))))
    /\ final_val' = df'.col["Equity"][df'.len]
    /\ performance' = PerformanceOf(final_val')
    /\ pc' = "done"
    /\ UNCHANGED <<calc_method, st_error, s>>

\* Streamlit runs the script again, from the top, on the next interaction.
Rerun ==
    /\ pc \in {"done", "stopped"}
    /\ pc' = "load"
    /\ calc_method' \in Methods
    /\ df' = EmptyFrame
    /\ st_error' = FALSE
    /\ s' = Unset
    /\ final_val' = Unset
    /\ performance' = Unset

Next == LoadData \/ Calculations \/ Tab1 \/ Tab2 \/ Tab3 \/ Rerun

Spec == Init /\ [][Next]_vars

----------------------------------------------------------------------------
(* Properties.  The program indexes a series from 0; a TLA+ sequence is    *)
(* indexed from 1, so index t of the program is element t + 1 here.        *)

Col(name) == df.col[name]

DerivedCols == {"Returns", "SMA20", "SMA50", "Signal", "Strat_Ret", "Equity"}

\* a > b for two rationals, by cross-multiplication.
RatGreater(a, b) == a.c[1] * b.d > b.c[1] * a.d

\* The product of col[lo..hi], lo <= hi.
RECURSIVE ProdRange(_, _, _)
ProdRange(col, lo, hi) ==
    IF lo = hi THEN col[lo]
    ELSE LET mid == (lo + hi) \div 2
         IN  MulV(ProdRange(col, lo, mid), ProdRange(col, mid + 1, hi))

\* The sum of the integer closes at lo..hi, lo <= hi.
RECURSIVE CloseSum(_, _, _)
CloseSum(close, lo, hi) ==
    IF lo = hi THEN close[lo].c[1]
    ELSE LET mid == (lo + hi) \div 2
         IN  CloseSum(close, lo, mid) + CloseSum(close, mid + 1, hi)

\* The whole backtest as a function of the method and the closes.
SignalFromCloses(close) ==
    SignalOf(RollingMean(close, FastWindow), RollingMean(close, SlowWindow))

EquityFromCloses(method, close) ==
    EquityOf(StratRet(SignalFromCloses(close), ReturnsOf(method, close)))

\* The backtest on C1's scenario: signal=[0,1,1], returns=[undefined,0.05,0.10].
ScenarioStratRet == StratRet(<<Zero, One, One>>, <<NaN, Rat(1, 20), Rat(1, 10)>>)

ScenarioEquity == EquityOf(ScenarioStratRet)

\* Once the backtest has run, the strategy return at every index after the
\* first is Signal at the previous index times Returns at this index, it is
\* undefined at the first index, and Equity at every index t is 1000 times
\* the product over i <= t of (1 + strategy return at i), an undefined
\* strategy return counting as 0.
EquityIsCompoundedLaggedSignal ==
    pc = "done" =>
        LET n == df.len
            sret == [i \in 1..n |->
                       IF i = 1 THEN NaN
                       ELSE MulV(Col("Signal")[i - 1], Col("Returns")[i])]
            factor == AsSeq([i \in 1..n |->
                       IF IsNaN(sret[i]) THEN One ELSE AddV(One, sret[i])])
        IN  /\ Len(Col("Equity")) = n
            /\ \A t \in 1..n :
                 /\ Col("Strat_Ret")[t] = sret[t]
                 /\ Col("Equity")[t] = MulV(Num(1000), ProdRange(factor, 1, t))

\* C1 as stated: the equity is the compounded product of the lagged-signal
\* strategy returns, and the scenario signal=[0,1,1],
\* returns=[undefined,0.05,0.10] gives equity=[1000,1000,1050].
C1_Original ==
    /\ EquityIsCompoundedLaggedSignal
    /\ ScenarioEquity = <<Num(1000), Num(1000), Num(1050)>>

\* C1 as amended: the equity is the compounded product of the lagged-signal
\* strategy returns, and the scenario signal=[0,1,1],
\* returns=[undefined,0.05,0.10] gives strategy returns [undefined,0,0.10]
\* and equity=[1000,1000,1100].
C1_EquityIsCompoundedLaggedSignal ==
    /\ EquityIsCompoundedLaggedSignal
    /\ ScenarioStratRet = <<NaN, Zero, Rat(1, 10)>>
    /\ ScenarioEquity = <<Num(1000), Num(1000), Num(1100)>>

\* A finished backtest that was in the market over two periods with defined,
\* non-zero returns and ends with a finite equity other than 1000.
C1_Witness ==
    /\ pc = "done"
    /\ \E i, j \in 2..df.len :
         /\ i < j
         /\ \A m \in {i, j} :
              /\ Col("Signal")[m - 1] = One
              /\ IsFin(Col("Returns")[m])
              /\ ~IsZero(Col("Returns")[m])
    /\ IsFin(final_val)
    /\ final_val # Num(1000)

\* C2: whenever the fetched table is empty or has no Close column, the run
\* has stopped with the error shown and nothing computed (no derived column,
\* no statistics, no final value, no performance); and every run that went
\* past the load has a non-empty table with a Close column.
C2_FetchFailureStopsRun ==
    /\ pc # "load" /\ LoadFails(df) =>
         /\ pc = "stopped"
         /\ st_error
         /\ DOMAIN df.col \cap DerivedCols = {}
         /\ s = Unset
         /\ final_val = Unset
         /\ performance = Unset
    /\ pc = "stopped" => LoadFails(df)
    /\ pc \in {"calc", "tab1", "tab2", "tab3", "done"} =>
         /\ ~st_error
         /\ df.len > 0
         /\ HasCol(df, "Close")

\* A run stopped on a table that has rows but no Close column.
C2_Witness ==
    /\ pc = "stopped"
    /\ df.len > 0
    /\ ~HasCol(df, "Close")
    /\ st_error

\* The return at element i cannot be computed: the previous close is zero, or
\* one of the two closes is not positive.
Uncomputable(close, i) == close[i - 1].c[1] <= 0 \/ close[i].c[1] <= 0

\* C3: under the logarithmic method every element after the first whose
\* return cannot be computed is undefined (NaN) in Returns, and the
\* statistics are those of the return series without these elements.
C3_UncomputableLogReturnIsUndefined ==
    calc_method = "Logarithmique" /\ HasCol(df, "Returns") =>
        /\ \A i \in 2..df.len :
             Uncomputable(Col("Close"), i) => IsNaN(Col("Returns")[i])
        /\ s # Unset =>
             s = get_stats(AsSeq([i \in 1..df.len |->
                    IF i > 1 /\ Uncomputable(Col("Close"), i) THEN NaN
                    ELSE Col("Returns")[i]]))

\* C4: the statistics are None exactly when every element of Returns is
\* undefined; otherwise Mean is the sum of the defined elements divided by
\* their number, and Min and Max are defined elements that bound every
\* defined element.
C4_StatsDropUndefined ==
    s # Unset =>
        LET r == Col("Returns")
            defined == {i \in 1..Len(r) : ~IsNaN(r[i])}
            zeroed == AsSeq([i \in 1..Len(r) |-> IF IsNaN(r[i]) THEN Zero ELSE r[i]])
        IN  /\ s = None <=> defined = {}
            /\ s # None =>
                 /\ s.kind = "dict"
                 /\ s.Mean = DivV(SumRange(zeroed, 1, Len(r)), Num(Cardinality(defined)))
                 /\ \E i \in defined : s.Min = r[i]
                 /\ \E i \in defined : s.Max = r[i]
                 /\ \A i \in defined : ~LessV(r[i], s.Min) /\ ~LessV(s.Max, r[i])

\* The statistics of a return series of several elements, all undefined.
C4_Witness ==
    /\ s = None
    /\ df.len >= 3

\* C5: a finished backtest whose Signal is 0 at every index has Equity 1000
\* at every index.
C5_ZeroSignalFlatEquity ==
    pc = "done" /\ (\A t \in 1..df.len : Col("Signal")[t] = Zero) =>
        \A t \in 1..df.len : Col("Equity")[t] = Num(1000)

\* A finished backtest with an all-zero signal over returns that hold a
\* non-zero number, an infinity and an undefined element after the first.
C5_Witness ==
    /\ pc = "done"
    /\ \A t \in 1..df.len : Col("Signal")[t] = Zero
    /\ \E t \in 2..df.len : IsFin(Col("Returns")[t]) /\ ~IsZero(Col("Returns")[t])
    /\ \E t \in 2..df.len : IsInf(Col("Returns")[t])
    /\ \E t \in 2..df.len : IsNaN(Col("Returns")[t])

\* C6: in a finished backtest Signal is 0 or 1 at every index, and it is 1
\* exactly when SMA20 and SMA50 are both defined there and SMA20 > SMA50.
C6_SignalIsStrictCrossover ==
    pc = "done" =>
        /\ Len(Col("Signal")) = df.len
        /\ \A t \in 1..df.len :
             LET fast == Col("SMA20")[t]
                 slow == Col("SMA50")[t]
             IN  /\ Col("Signal")[t] \in {Zero, One}
                 /\ Col("Signal")[t] = One <=>
                      /\ ~IsNaN(fast)
                      /\ ~IsNaN(slow)
                      /\ RatGreater(fast, slow)

\* A finished backtest with the signal 1 at one index, and 0 at three others:
\* one where the averages are equal, one where the fast one is below the
\* slow one, one where only the fast one is defined.
C6_Witness ==
    /\ pc = "done"
    /\ \E t \in 1..df.len : Col("Signal")[t] = One
    /\ \E t \in 1..df.len :
         ~IsNaN(Col("SMA50")[t]) /\ Col("SMA20")[t] = Col("SMA50")[t]
    /\ \E t \in 1..df.len :
         ~IsNaN(Col("SMA50")[t]) /\ RatGreater(Col("SMA50")[t], Col("SMA20")[t])
    /\ \E t \in 1..df.len : ~IsNaN(Col("SMA20")[t]) /\ IsNaN(Col("SMA50")[t])

\* ma is the moving average of window w over the integer closes: undefined
\* at the first w - 1 elements, then the sum of the w closes ending at the
\* element, divided by w.
IsWindowMean(ma, close, w) ==
    /\ Len(ma) = Len(close)
    /\ \A t \in 1..Len(close) :
         IF t < w THEN IsNaN(ma[t])
         ELSE ma[t] = Rat(CloseSum(close, t - w + 1, t), w)

\* Largest window and longest series of the exhaustive check of RollingMean.
MaxWindow == 4

MaxSeriesLen == 4

SmallSeries == UNION {[1..n -> CloseValues] : n \in 0..MaxSeriesLen}

RollingMeanOnSmallSeries ==
    \A w \in 1..MaxWindow : \A t \in SmallSeries :
        LET close == [i \in 1..Len(t) |-> Num(t[i])]
        IN  IsWindowMean(RollingMean(close, w), close, w)

\* C7: SMA20 and SMA50 are the moving averages of windows 20 and 50 over
\* Close (undefined before index w - 1, the mean of the last w closes from
\* there on); the same holds of every window up to MaxWindow on every series
\* up to MaxSeriesLen; and window 2 over [10,20,30,40] gives
\* [undefined,15,25,35].
C7_MovingAverageIsWindowMean ==
    /\ HasCol(df, "SMA20") => IsWindowMean(Col("SMA20"), Col("Close"), 20)
    /\ HasCol(df, "SMA50") => IsWindowMean(Col("SMA50"), Col("Close"), 50)
    /\ RollingMeanOnSmallSeries
    /\ RollingMean(<<Num(10), Num(20), Num(30), Num(40)>>, 2)
         = <<NaN, Num(15), Num(25), Num(35)>>

\* A finished backtest whose SMA20 and SMA50 are both defined at the last
\* index, over windows that hold different closes, and differ.
C7_Witness ==
    /\ pc = "done"
    /\ df.len > SlowWindow
    /\ ~IsNaN(Col("SMA50")[df.len])
    /\ Col("SMA20")[df.len] # Col("SMA50")[df.len]
    /\ Col("SMA50")[df.len] # Col("SMA50")[df.len - 1]
    /\ Col("Close")[df.len] # Col("Close")[df.len - 1]

\* C8: for both methods the Returns column has the length of the table and
\* of Close, and its first element is undefined.
C8_ReturnsAlignedFirstUndefined ==
    HasCol(df, "Returns") =>
        /\ calc_method \in Methods
        /\ Len(Col("Returns")) = df.len
        /\ Len(Col("Returns")) = Len(Col("Close"))
        /\ IsNaN(Col("Returns")[1])

\* Logarithmic returns over several closes, with a defined return among them.
C8_Witness ==
    /\ HasCol(df, "Returns")
    /\ calc_method = "Logarithmique"
    /\ df.len >= 3
    /\ \E t \in 2..df.len : IsFin(Col("Returns")[t]) /\ ~IsZero(Col("Returns")[t])

\* C9: the final value is the last element of Equity, and the performance
\* shown is (final value - 1000) / 1000 * 100.
C9_PerformanceOverInitialCapital ==
    pc = "done" =>
        /\ final_val = Col("Equity")[df.len]
        /\ performance =
             MulV(DivV(SubV(final_val, Num(1000)), Num(1000)), Num(100))

\* A finished backtest that ends with a finite equity other than 1000.
C9_Witness ==
    /\ pc = "done"
    /\ IsFin(final_val)
    /\ final_val # Num(1000)
    /\ ~IsZero(final_val)

\* C10: in a finished backtest over n closes, Equity at every index before
\* the last is what the backtest gives on the first n - 1 closes alone, and
\* the strategy return at the last index is the return there times the last
\* signal of the backtest on the first n - 1 closes.  (Two series that agree
\* up to an index are extensions of their common part; applied to every
\* series and its shortenings down to that part, this gives both the same
\* Equity up to that index.)
C10_NoLookAhead ==
    pc = "done" =>
        LET n == df.len
            front == SubSeq(Col("Close"), 1, n - 1)
            equity == EquityFromCloses(calc_method, front)
            signal == SignalFromCloses(front)
        IN  /\ \A t \in 1..(n - 1) : Col("Equity")[t] = equity[t]
            /\ n >= 2 =>
                 Col("Strat_Ret")[n] = MulV(signal[n - 1], Col("Returns")[n])

\* A finished backtest whose signal changes at the last index, after a
\* period in the market with a defined, non-zero return.
C10_Witness ==
    /\ pc = "done"
    /\ df.len > SlowWindow
    /\ Col("Signal")[df.len] # Col("Signal")[df.len - 1]
    /\ IsFin(Col("Returns")[df.len])
    /\ ~IsZero(Col("Returns")[df.len])
    /\ Col("Equity")[df.len] # Col("Equity")[df.len - 1]

====
